---- MODULE Spec2Model ----
(***************************************************************************)
(* Model of main.py: a batch driver that walks INPUT_ROOT, classifies each *)
(* folder with is_dicom_folder and runs dcm2niix on every folder that      *)
(* matches, mirroring the folder hierarchy below OUTPUT_ROOT.              *)
(*                                                                         *)
(* Paths, file names and file contents are sequences of one-character      *)
(* strings, so that the string operations of the program (lower, endswith, *)
(* the substring test `OUTPUT_ROOT in root`, os.path.join, os.path.relpath)*)
(* are computed rather than assumed.                                       *)
(***************************************************************************)
EXTENDS Integers, Sequences, FiniteSets, TLC

\* ------------------------------------------------------------------ bounds

\* Longest directory listing handed to the classifier.
MaxFiles == 6

\* Most directories that exist below INPUT_ROOT before a run.
MaxDirs == 2

\* Longest standard output of the converter, in tokens.
MaxOut == 3

\* --------------------------------------------------------- string helpers

Min(a, b) == IF a < b THEN a ELSE b

Max(a, b) == IF a < b THEN b ELSE a

\* str.lower() on one character.
LowerChar(c) ==
  CASE c = "D" -> "d"
    [] c = "C" -> "c"
    [] c = "M" -> "m"
    [] c = "O" -> "o"
    [] c = "I" -> "i"
    [] c = "A" -> "a"
    [] c = "B" -> "b"
    [] OTHER -> c

\* str.lower()
Lower(s) == [k \in 1..Len(s) |-> LowerChar(s[k])]

\* str.endswith(suffix)
EndsWith(s, suf) ==
  /\ Len(suf) <= Len(s)
  /\ SubSeq(s, Len(s) - Len(suf) + 1, Len(s)) = suf

\* `needle in hay` on strings: needle occurs as a contiguous substring.
Contains(hay, needle) ==
  \E k \in 1..(Len(hay) - Len(needle) + 1) :
    SubSeq(hay, k, k + Len(needle) - 1) = needle

\* The tuple of extensions of line 70.
DICOM_EXTS ==
  { <<".", "d", "c", "m">>, <<".", "d", "o", "c", "m">>, <<".", "i", "m", "a">> }

\* The signature of line 78.
DICM == <<"D", "I", "C", "M">>

\* The offset of line 76.
MAGIC_OFFSET == 128

\* The read length of line 77.
MAGIC_LEN == 4

\* The sample size of line 66.
SAMPLE_SIZE == 5

\* --------------------------------------------------------- directory entries

\* A directory entry: its name, whether os.path.isfile holds, whether open()
\* succeeds, and its content: `pad` zero bytes followed by `payload`.
Entry(name, isfile, readable, pad, payload) ==
  [name |-> name, isfile |-> isfile, readable |-> readable,
   pad |-> pad, payload |-> payload]

FileSize(f) == f.pad + Len(f.payload)

\* The byte at 0-based offset k of a file, k < FileSize(f).
ByteAt(f, k) == IF k < f.pad THEN "0" ELSE f.payload[k - f.pad + 1]

\* file_obj.seek(off); file_obj.read(n): the bytes that exist in [off, off+n).
SeekRead(f, off, n) ==
  [k \in 1..Max(0, Min(n, FileSize(f) - off)) |-> ByteAt(f, off + k - 1)]

\* ------------------------------------------------------ is_dicom_folder

\* A folder as os.listdir sees it: whether it can be listed, and its entries
\* in listing order.
Folder(listable, entries) == [listable |-> listable, entries |-> entries]

IsFileEntry(e) == e.isfile

\* A slice taken before the filter: directory entries use up sample slots.
sampled_files_slice_first(entries) ==
  SelectSeq(SubSeq(entries, 1, Min(SAMPLE_SIZE, Len(entries))), IsFileEntry)

\* Lines 64 and 66: the regular files of the listing, then files[:5].
sampled_files(entries) ==
  LET files == SelectSeq(entries, IsFileEntry)
  IN  SubSeq(files, 1, Min(SAMPLE_SIZE, Len(files)))

\* Line 70: f.lower().endswith(('.dcm', '.docm', '.ima'))
ext_matches(f) == \E suf \in DICOM_EXTS : EndsWith(Lower(f.name), suf)

\* Lines 74-81: open, seek(128), read(4), compare; any exception is swallowed
\* and the file counts as no match.
header_matches(f) ==
  /\ f.readable
  /\ SeekRead(f, MAGIC_OFFSET, MAGIC_LEN) = DICM

\* Lines 66-81: the loop over the sample from index k on, returning at the
\* first file that matches.
RECURSIVE scan_sample(_, _)
scan_sample(sample, k) ==
  IF k > Len(sample) THEN FALSE
  ELSE IF ext_matches(sample[k]) THEN TRUE
  ELSE IF header_matches(sample[k]) THEN TRUE
  ELSE scan_sample(sample, k + 1)

\* Lines 56-86. A listing that raises is caught by the outer handler and the
\* folder is reported as no match.
is_dicom_folder(folder) ==
  IF ~folder.listable THEN FALSE
  ELSE scan_sample(sampled_files(folder.entries), 1)

\* Line 84: the warning logged when the folder cannot be scanned.
is_dicom_folder_log(folder) ==
  IF ~folder.listable THEN << [level |-> "WARNING", what |-> "scan_failed"] >>
  ELSE << >>

\* ------------------------------------------------ sample directory entries

ZeroLen == << >>

N_txt == <<"n", ".", "t", "x", "t">>

\* A sub-directory whose name ends in .dcm: not a regular file.
E_subdir == Entry(<<"s", ".", "d", "c", "m">>, FALSE, FALSE, 0, ZeroLen)

\* A readable text file, 132 bytes long, without the signature.
E_txt == Entry(N_txt, TRUE, TRUE, 128, <<"D", "I", "C", "X">>)

\* An upper-case .DCM file that cannot be opened.
E_dcm == Entry(<<"B", ".", "D", "C", "M">>, TRUE, FALSE, 0, ZeroLen)

\* A file without extension that carries the signature at offset 128.
E_magic == Entry(<<"c">>, TRUE, TRUE, 128, DICM)

\* A file that carries the signature but cannot be opened.
E_locked == Entry(<<"d", ".", "b", "i", "n">>, TRUE, FALSE, 128, DICM)

BasicEntries == { E_subdir, E_txt, E_dcm, E_magic, E_locked }

\* Further single files: other extensions and other contents.
ProbeEntries ==
  { Entry(<<"x", ".", "d", "o", "c", "m">>, TRUE, TRUE, 0, ZeroLen),
    Entry(<<"x", ".", "I", "M", "A">>, TRUE, FALSE, 0, ZeroLen),
    Entry(<<"x", ".", "D", "c", "m">>, TRUE, TRUE, 0, ZeroLen),
    Entry(<<"x", ".", "d", "c", "m", ".", "b", "a", "k">>, TRUE, TRUE, 0, ZeroLen),
    Entry(<<"d", "c", "m">>, TRUE, TRUE, 128, <<"D", "I", "C">>),
    Entry(<<"x", "d", "c", "m">>, TRUE, TRUE, 0, DICM),
    Entry(<<"x", ".", "d", "c">>, TRUE, TRUE, 127, DICM),
    Entry(<<"x", ".", "c", "m">>, TRUE, TRUE, 129, DICM),
    Entry(<<"i", "m", "a", ".", "x">>, TRUE, TRUE, 128, <<"D", "I", "C", "M", "X">>),
    Entry(<<"x", ".", "d", "o", "c">>, TRUE, TRUE, 128, <<"d", "i", "c", "m">>) }

\* Every listing of at most n basic entries.
Listings(n) == UNION { [1..k -> BasicEntries] : k \in 0..n }

\* ------------------------------------------------------------ os.path

\* os.sep
sep == "/"

\* The file-system root, which always exists.
FsRoot == << sep >>

\* The components of a path: the maximal runs of characters between separators.
RECURSIVE split_from(_, _, _, _)
split_from(p, k, cur, acc) ==
  IF k > Len(p) THEN (IF cur = << >> THEN acc ELSE Append(acc, cur))
  ELSE IF p[k] = sep
       THEN split_from(p, k + 1, << >>,
                       IF cur = << >> THEN acc ELSE Append(acc, cur))
       ELSE split_from(p, k + 1, Append(cur, p[k]), acc)

split(p) == split_from(p, 1, << >>, << >>)

\* sep.join(components)
RECURSIVE sep_join(_)
sep_join(comps) ==
  IF comps = << >> THEN << >>
  ELSE IF Len(comps) = 1 THEN comps[1]
  ELSE comps[1] \o << sep >> \o sep_join(Tail(comps))

\* The absolute path made of the given components.
abs_of(comps) == << sep >> \o sep_join(comps)

DOT == << "." >>

DOTDOT == << ".", "." >>

\* Collapses "." and ".." components.
RECURSIVE collapse(_, _)
collapse(comps, acc) ==
  IF comps = << >> THEN acc
  ELSE IF Head(comps) = DOT THEN collapse(Tail(comps), acc)
  ELSE IF Head(comps) = DOTDOT
       THEN collapse(Tail(comps),
                     IF acc = << >> THEN acc ELSE SubSeq(acc, 1, Len(acc) - 1))
       ELSE collapse(Tail(comps), Append(acc, Head(comps)))

\* os.path.normpath / os.path.abspath of an absolute path.
normpath(p) == abs_of(collapse(split(p), << >>))

\* os.path.join(a, b)
join(a, b) ==
  IF b # << >> /\ b[1] = sep THEN b
  ELSE IF a = << >> \/ a[Len(a)] = sep THEN a \o b
  ELSE a \o << sep >> \o b

\* The length of the longest common prefix of two component lists.
RECURSIVE common_len(_, _)
common_len(a, b) ==
  IF a = << >> \/ b = << >> \/ Head(a) # Head(b) THEN 0
  ELSE 1 + common_len(Tail(a), Tail(b))

\* A relpath that keeps only the last component of the path.
relpath_basename(path, start) ==
  LET path_list == split(normpath(path))
  IN  IF path_list = << >> THEN DOT ELSE path_list[Len(path_list)]

\* os.path.relpath(path, start)
relpath(path, start) ==
  LET start_list == split(normpath(start))
      path_list == split(normpath(path))
      i == common_len(start_list, path_list)
      rel_list == [k \in 1..(Len(start_list) - i) |-> DOTDOT]
                  \o SubSeq(path_list, i + 1, Len(path_list))
  IN  IF rel_list = << >> THEN DOT ELSE sep_join(rel_list)

\* The parent directory of a normalised absolute path.
parent_of(p) ==
  LET comps == split(p)
  IN  IF comps = << >> THEN FsRoot ELSE abs_of(SubSeq(comps, 1, Len(comps) - 1))

\* The last component of a normalised absolute path.
basename(p) == LET comps == split(p) IN comps[Len(comps)]

\* A normalised path and all of its ancestors below the file-system root.
with_parents(p) ==
  LET comps == split(p)
  IN  { abs_of(SubSeq(comps, 1, k)) : k \in 1..Len(comps) }

\* --------------------------------------------------------------- state

VARIABLES
  INPUT_ROOT,       \* line 13, as a path
  OUTPUT_ROOT,      \* line 17, as a path
  exe_exists,       \* os.path.exists(DCM2NIIX_EXE)
  dirs,             \* the directories that exist
  files,            \* per directory, its non-directory entries in listing order
  denied,           \* the directories that cannot be listed
  pc,               \* where main is: start, walk, done, exited, crashed
  todo,             \* the directories os.walk has still to visit, next first
  processed_count,  \* line 141
  log,              \* the entries the last step appended to the log
  exit_status,      \* the process exit status once it has ended, else -1
  classified,       \* the folders handed to is_dicom_folder, in order
  calls,            \* the folders handed to convert_directory, in order
  invocations,      \* the subprocess.run calls, in order
  created,          \* the directories this run has created
  run_no,           \* 1 in the first run of the tool, 2 in the second
  prev_run,         \* what the first run left, once a second run has started
  c_folder,         \* the folder a lone is_dicom_folder call is given
  c_verdict,        \* its result: pending, match, nomatch
  r_result,         \* the converter result a lone convert_directory call meets
  r_log             \* the entries that call logged

vars ==
  << INPUT_ROOT, OUTPUT_ROOT, exe_exists, dirs, files, denied, pc, todo,
     processed_count, log, exit_status, classified, calls, invocations,
     created, run_no, prev_run, c_folder, c_verdict, r_result, r_log >>

\* ---------------------------------------------------------------- logging

LogEntry(level, what, text) == [level |-> level, what |-> what, text |-> text]

\* ------------------------------------------------------- converter results

\* What subprocess.run gives: a completed process (exit code, standard output
\* and standard error as token sequences), or an exception.
Completed(rc, out, err) ==
  [raised |-> FALSE, returncode |-> rc, stdout |-> out, stderr |-> err]

Raised == [raised |-> TRUE, returncode |-> 0, stdout |-> << >>, stderr |-> << >>]

\* The tokens of the converter's output; NL is the line break.
NL == "\n"

OutTokens == { "Convert", "Warn", NL }

\* result.stdout.split('\n')
RECURSIVE split_lines(_, _)
split_lines(out, cur) ==
  IF out = << >> THEN << cur >>
  ELSE IF Head(out) = NL THEN << cur >> \o split_lines(Tail(out), << >>)
  ELSE split_lines(Tail(out), Append(cur, Head(out)))

\* Line 124: "Convert" in line
has_marker(line) == \E k \in 1..Len(line) : line[k] = "Convert"

\* Lines 123-125: one info entry per output line that holds the marker.
RECURSIVE marker_entries(_)
marker_entries(lines) ==
  IF lines = << >> THEN << >>
  ELSE (IF has_marker(Head(lines))
        THEN << LogEntry("INFO", "converted_line", Head(lines)) >>
        ELSE << >>) \o marker_entries(Tail(lines))

\* A result handler that reports success whatever the exit code.
result_log_always_success(result) ==
  IF result.raised THEN << LogEntry("ERROR", "exception", << >>) >>
  ELSE << LogEntry("INFO", "success", << >>) >>
       \o marker_entries(split_lines(result.stdout, << >>))

\* Lines 109-134: what convert_directory logs for a converter result.
result_log(result) ==
  IF result.raised THEN << LogEntry("ERROR", "exception", << >>) >>
  ELSE IF result.returncode = 0
  THEN << LogEntry("INFO", "success", << >>) >>
       \o marker_entries(split_lines(result.stdout, << >>))
  ELSE << LogEntry("WARNING", "maybe_problem", << >>),
          LogEntry("WARNING", "tool_output", result.stdout) >>
       \o (IF result.stderr # << >>
           THEN << LogEntry("ERROR", "tool_stderr", result.stderr) >>
           ELSE << >>)

\* Lines 106-107: the two entries logged before the converter is started.
start_log == << LogEntry("INFO", "processing", << >>),
                LogEntry("INFO", "output_target", << >>) >>

\* ------------------------------------------------------------ file system

\* The names a directory may bear, in the order a listing returns them.
NameOrder == << <<"a">>, <<"i">>, <<"o">>, <<"o", "b">> >>

\* The sub-directories of d, as os.scandir finds them.
subdirs_of(d, ds) ==
  LET cand == [k \in 1..Len(NameOrder) |-> join(d, NameOrder[k])]
  IN  SelectSeq(cand, LAMBDA q : q \in ds)

\* os.listdir(d): the sub-directories, then the other entries.
listdir(d, ds, fl) ==
  LET subs == subdirs_of(d, ds)
  IN  [k \in 1..Len(subs) |-> Entry(basename(subs[k]), FALSE, FALSE, 0, ZeroLen)]
      \o fl[d]

\* A path at which something other than a directory exists.
is_nondir(q, ds, fl) ==
  /\ q \notin ds
  /\ parent_of(q) \in ds
  /\ \E k \in 1..Len(fl[parent_of(q)]) : fl[parent_of(q)][k].name = basename(q)

\* A mkdir that raises when the directory exists (exist_ok=False).
mkdir_raises_exist_not_ok(p, ds, fl) ==
  \/ normpath(p) \in ds
  \/ \E q \in with_parents(normpath(p)) : is_nondir(q, ds, fl)

\* Path(p).mkdir(parents=True, exist_ok=True) raises: the path, or one of its
\* ancestors, exists and is not a directory.
mkdir_raises(p, ds, fl) ==
  \E q \in with_parents(normpath(p)) : is_nondir(q, ds, fl)

\* Path(p).mkdir(parents=True, exist_ok=True): the directories afterwards.
mkdir(p, ds) == ds \cup with_parents(normpath(p))

\* The listings once the directories ds2 exist: a new directory is empty.
extend_files(fl, ds, ds2) ==
  [d \in ds2 |-> IF d \in ds THEN fl[d] ELSE << >>]

\* What the converter leaves in its output directory.
E_nii == Entry(<<"x", ".", "n", "i", "i">>, TRUE, TRUE, 0, ZeroLen)

\* The converter writes its file into the directory given after -o, when it
\* succeeds; a file of an earlier run is written over.
converter_writes(fl, out_dir, result) ==
  IF /\ ~result.raised
     /\ result.returncode = 0
     /\ normpath(out_dir) \in DOMAIN fl
     /\ \A k \in 1..Len(fl[normpath(out_dir)]) : fl[normpath(out_dir)][k] # E_nii
  THEN [fl EXCEPT ![normpath(out_dir)] = Append(@, E_nii)]
  ELSE fl

\* ---------------------------------------------------------- configuration

\* Line 10, as a path.
DCM2NIIX_EXE == <<"/", "d", "c", "m", "2", "n", "i", "i", "x">>

\* Line 27.
DCM_ARGS ==
  << <<"-", "f">>, <<"%", "i", "_", "%", "p", "_", "%", "t", "_", "%", "s">>,
     <<"-", "z">>, <<"y">>, <<"-", "b">>, <<"y">>, <<"-", "v">>, <<"n">> >>

DASH_O == <<"-", "o">>

\* Line 104.
build_cmd(output_dir, source_dir) ==
  << DCM2NIIX_EXE >> \o DCM_ARGS \o << DASH_O, output_dir, source_dir >>

\* A test for the output root itself only.
in_output_root_exact(root, out) == root = out

\* Line 148: OUTPUT_ROOT in root
in_output_root(root, out) == Contains(root, out)

\* Lines 94-95.
output_dir_of(source_dir, target_base, input_root) ==
  join(target_base, relpath(source_dir, input_root))

\* ------------------------------------------------------- initial states

P_in == <<"/", "i">>

\* Output roots: beside the input root, and two levels inside it.
OutRoots == { <<"/", "o">>, <<"/", "i", "/", "a", "/", "o">> }

DirNames == { <<"a">>, <<"o", "b">> }

\* The directories that may exist below the input root before a run.
InputDirs ==
  { join(P_in, n) : n \in DirNames }
    \cup { join(join(P_in, n), m) : n \in DirNames, m \in DirNames }

\* The sets of at most MaxDirs of them that hold the parent of each member.
Trees ==
  { t \in SUBSET InputDirs :
      /\ Cardinality(t) <= MaxDirs
      /\ \A d \in t : parent_of(d) \in t \cup { P_in } }

\* A folder without files, one with files that are no DICOM, one with DICOM.
L_empty == << >>

L_notes == << E_locked, E_txt >>

L_series == << E_locked, E_magic >>

RunListings == { L_empty, L_notes, L_series }

\* A regular file named a.
E_block == Entry(<<"a">>, TRUE, TRUE, 0, ZeroLen)

\* The output root before the run: missing, holding a regular file named a,
\* or holding a directory a left by an earlier run.
OutStates == { "absent", "blocked", "populated" }

NoRun == [matched |-> {}, dirs |-> {}]

NoResult == Completed(0, << >>, << >>)

ClassifyIdle ==
  /\ c_folder = Folder(TRUE, << >>)
  /\ c_verdict = "pending"

InvokeIdle ==
  /\ r_result = NoResult
  /\ r_log = << >>

RunFresh ==
  /\ pc = "start"
  /\ todo = << >>
  /\ processed_count = 0
  /\ log = << >>
  /\ exit_status = -1
  /\ classified = << >>
  /\ calls = << >>
  /\ invocations = << >>
  /\ created = {}
  /\ run_no = 1
  /\ prev_run = NoRun

\* The file system a run starts from.
InitFs(out, present, tree, lst, den, ost) ==
  LET indirs == IF present THEN tree \cup { P_in } ELSE {}
      outdirs == CASE ost = "absent" -> {}
                   [] ost = "populated" -> { out, join(out, <<"a">>) }
                   [] OTHER -> { out }
      ds == { FsRoot } \cup indirs \cup outdirs
  IN  /\ \A d \in ds \ { FsRoot } : parent_of(d) \in ds
      /\ dirs = ds
      /\ files = [d \in ds |->
                   IF d \in indirs THEN lst[d]
                   ELSE IF d = out /\ ost = "blocked" THEN << E_block >>
                   ELSE IF d = join(out, <<"a">>) THEN << E_dcm, E_nii >>
                   ELSE << >>]
      /\ denied = den

Init ==
  /\ \E out \in OutRoots, exe \in BOOLEAN, present \in BOOLEAN,
        tree \in Trees, ost \in OutStates :
       \E lst \in [tree \cup { P_in } -> RunListings],
          den \in SUBSET (tree \cup { P_in }) :
         /\ Cardinality(den) <= 1
         /\ \A d \in den : lst[d] = L_series
         /\ ~present => /\ tree = {}
                        /\ den = {}
                        /\ lst[P_in] = L_empty
         /\ INPUT_ROOT = P_in
         /\ OUTPUT_ROOT = out
         /\ exe_exists = exe
         /\ InitFs(out, present, tree, lst, den, ost)
  /\ RunFresh
  /\ ClassifyIdle
  /\ InvokeIdle

\* --------------------------------------------------------------- actions

SideIdle == UNCHANGED << c_folder, c_verdict, r_result, r_log >>

ConfigSame == UNCHANGED << INPUT_ROOT, OUTPUT_ROOT, exe_exists, denied >>

\* A check that creates the output root before it looks for the converter.
check_environment_no_exe_mkdir_first ==
  /\ pc = "start"
  /\ ~exe_exists
  /\ dirs' = mkdir(OUTPUT_ROOT, dirs)
  /\ files' = extend_files(files, dirs, dirs')
  /\ created' = created \cup (dirs' \ dirs)
  /\ log' = << LogEntry("CRITICAL", "no_converter", << >>) >>
  /\ pc' = "exited"
  /\ exit_status' = 1
  /\ UNCHANGED << todo, processed_count, classified, calls, invocations,
                  run_no, prev_run >>
  /\ ConfigSame /\ SideIdle

\* Lines 44-46: the converter is missing; log at critical level and exit(1).
check_environment_no_exe ==
  /\ pc = "start"
  /\ ~exe_exists
  /\ log' = << LogEntry("CRITICAL", "no_converter", << >>) >>
  /\ pc' = "exited"
  /\ exit_status' = 1
  /\ UNCHANGED << dirs, files, todo, processed_count, classified, calls,
                  invocations, created, run_no, prev_run >>
  /\ ConfigSame /\ SideIdle

\* Lines 47-49: the input root is missing; log at critical level and exit(1).
check_environment_no_input ==
  /\ pc = "start"
  /\ exe_exists
  /\ INPUT_ROOT \notin dirs
  /\ log' = << LogEntry("CRITICAL", "no_input_root", << >>) >>
  /\ pc' = "exited"
  /\ exit_status' = 1
  /\ UNCHANGED << dirs, files, todo, processed_count, classified, calls,
                  invocations, created, run_no, prev_run >>
  /\ ConfigSame /\ SideIdle

\* Lines 52-53 and 140-146: create the output root and start the walk.
check_environment_ok ==
  /\ pc = "start"
  /\ exe_exists
  /\ INPUT_ROOT \in dirs
  /\ ~mkdir_raises(OUTPUT_ROOT, dirs, files)
  /\ dirs' = mkdir(OUTPUT_ROOT, dirs)
  /\ files' = extend_files(files, dirs, dirs')
  /\ created' = created \cup (dirs' \ dirs)
  /\ log' = << LogEntry("INFO", "environment_ok", << >>),
               LogEntry("INFO", "walk_start", << >>) >>
  /\ processed_count' = 0
  /\ todo' = << INPUT_ROOT >>
  /\ pc' = "walk"
  /\ UNCHANGED << exit_status, classified, calls, invocations, run_no, prev_run >>
  /\ ConfigSame /\ SideIdle

\* The directory os.walk visits next.
root == Head(todo)

\* os.walk after yielding `root`: its sub-directories, found when it was
\* scanned, are visited before the rest.
walk_on == subdirs_of(root, dirs) \o Tail(todo)

Walking == pc = "walk" /\ todo # << >>

\* os.walk cannot scan the directory: it yields nothing for it and goes on.
walk_scandir_error ==
  /\ Walking
  /\ root \in denied
  /\ todo' = Tail(todo)
  /\ log' = << >>
  /\ UNCHANGED << dirs, files, pc, processed_count, exit_status, classified,
                  calls, invocations, created, run_no, prev_run >>
  /\ ConfigSame /\ SideIdle

\* Lines 148-149: the path of the directory holds OUTPUT_ROOT.
skip_output_root ==
  /\ Walking
  /\ root \notin denied
  /\ in_output_root(root, OUTPUT_ROOT)
  /\ todo' = walk_on
  /\ log' = << >>
  /\ UNCHANGED << dirs, files, pc, processed_count, exit_status, classified,
                  calls, invocations, created, run_no, prev_run >>
  /\ ConfigSame /\ SideIdle

\* Lines 151-152: the directory holds no files.
skip_no_files ==
  /\ Walking
  /\ root \notin denied
  /\ ~in_output_root(root, OUTPUT_ROOT)
  /\ files[root] = << >>
  /\ todo' = walk_on
  /\ log' = << >>
  /\ UNCHANGED << dirs, files, pc, processed_count, exit_status, classified,
                  calls, invocations, created, run_no, prev_run >>
  /\ ConfigSame /\ SideIdle

\* The folder is_dicom_folder(root) reads.
root_folder == Folder(root \notin denied, listdir(root, dirs, files))

\* A candidate test without the check of lines 151-152.
Candidate_with_empty ==
  /\ Walking
  /\ root \notin denied
  /\ ~in_output_root(root, OUTPUT_ROOT)

Candidate ==
  /\ Walking
  /\ root \notin denied
  /\ ~in_output_root(root, OUTPUT_ROOT)
  /\ files[root] # << >>

\* Line 155, false: the folder is classified and left alone.
classify_no_match ==
  /\ Candidate
  /\ ~is_dicom_folder(root_folder)
  /\ classified' = Append(classified, root)
  /\ log' = is_dicom_folder_log(root_folder)
  /\ todo' = walk_on
  /\ UNCHANGED << dirs, files, pc, processed_count, exit_status, calls,
                  invocations, created, run_no, prev_run >>
  /\ ConfigSame /\ SideIdle

\* Lines 155-156 and 94-98: the folder matches and mkdir raises in
\* convert_directory, outside its try block; the exception leaves main.
convert_mkdir_raises ==
  /\ Candidate
  /\ is_dicom_folder(root_folder)
  /\ mkdir_raises(output_dir_of(root, OUTPUT_ROOT, INPUT_ROOT), dirs, files)
  /\ classified' = Append(classified, root)
  /\ calls' = Append(calls, root)
  /\ log' = << >>
  /\ pc' = "crashed"
  /\ exit_status' = 1
  /\ UNCHANGED << dirs, files, todo, processed_count, invocations, created,
                  run_no, prev_run >>
  /\ ConfigSame /\ SideIdle

\* A count that goes up for a successful conversion only.
next_count_on_success(count, result) ==
  IF ~result.raised /\ result.returncode = 0 THEN count + 1 ELSE count

\* Line 157: processed_count += 1, whatever convert_directory met.
next_count(count, result) == count + 1

\* The converter results a run meets.
R_ok == Completed(0, << "Convert", NL, "Warn" >>, << >>)

R_fail == Completed(1, << "Warn" >>, << "Err" >>)

R_none_found == Completed(2, << >>, << >>)

RunResults == { R_ok, R_fail, R_none_found, Raised }

\* Lines 155-157 and 89-134: the folder matches; convert_directory creates the
\* output directory, runs the converter and logs its result, whatever it is;
\* the count goes up.
convert_directory ==
  LET output_dir == output_dir_of(root, OUTPUT_ROOT, INPUT_ROOT)
      made == mkdir(output_dir, dirs)
  IN  /\ Candidate
      /\ is_dicom_folder(root_folder)
      /\ ~mkdir_raises(output_dir, dirs, files)
      /\ classified' = Append(classified, root)
      /\ calls' = Append(calls, root)
      /\ dirs' = made
      /\ created' = created \cup (made \ dirs)
      /\ invocations' =
           Append(invocations,
                  [cmd |-> build_cmd(output_dir, root),
                   out_exists |-> normpath(output_dir) \in made])
      /\ todo' = walk_on
      /\ \E result \in RunResults :
           /\ files' = converter_writes(extend_files(files, dirs, made),
                                        output_dir, result)
           /\ log' = start_log \o result_log(result)
           /\ processed_count' = next_count(processed_count, result)
      /\ UNCHANGED << pc, exit_status, run_no, prev_run >>
      /\ ConfigSame /\ SideIdle

\* Lines 159-162: the walk is over; log the summary and return.
summary ==
  /\ pc = "walk"
  /\ todo = << >>
  /\ log' = << [level |-> "INFO", what |-> "summary", text |-> processed_count],
               LogEntry("INFO", "elapsed", << >>),
               LogEntry("INFO", "check_output", << >>) >>
  /\ pc' = "done"
  /\ exit_status' = 0
  /\ UNCHANGED << dirs, files, todo, processed_count, classified, calls,
                  invocations, created, run_no, prev_run >>
  /\ ConfigSame /\ SideIdle

Next ==
  \/ check_environment_no_exe
  \/ check_environment_no_input
  \/ check_environment_ok
  \/ walk_scandir_error
  \/ skip_output_root
  \/ skip_no_files
  \/ classify_no_match
  \/ convert_mkdir_raises
  \/ convert_directory
  \/ summary

Spec == Init /\ [][Next]_vars

\* ------------------------------------------------------------ a second run

\* The elements of a sequence.
Range(q) == { q[k] : k \in 1..Len(q) }

Ended == pc \in { "done", "exited", "crashed" }

\* The tool is started again, on the file system the first run left.
rerun ==
  /\ Ended
  /\ run_no = 1
  /\ prev_run' = [matched |-> Range(calls), dirs |-> dirs]
  /\ run_no' = 2
  /\ pc' = "start"
  /\ todo' = << >>
  /\ processed_count' = 0
  /\ log' = << >>
  /\ exit_status' = -1
  /\ classified' = << >>
  /\ calls' = << >>
  /\ invocations' = << >>
  /\ created' = {}
  /\ UNCHANGED << dirs, files >>
  /\ ConfigSame /\ SideIdle

NextTwice == Next \/ rerun

SpecTwice == Init /\ [][NextTwice]_vars

\* ------------------------------------------- is_dicom_folder on its own

RunIdle ==
  /\ INPUT_ROOT = P_in
  /\ OUTPUT_ROOT = <<"/", "o">>
  /\ exe_exists = TRUE
  /\ dirs = { FsRoot }
  /\ files = [d \in { FsRoot } |-> << >>]
  /\ denied = {}
  /\ pc = "idle"
  /\ todo = << >>
  /\ processed_count = 0
  /\ log = << >>
  /\ exit_status = -1
  /\ classified = << >>
  /\ calls = << >>
  /\ invocations = << >>
  /\ created = {}
  /\ run_no = 1
  /\ prev_run = NoRun

RunSame ==
  UNCHANGED << INPUT_ROOT, OUTPUT_ROOT, exe_exists, dirs, files, denied, pc,
               todo, processed_count, exit_status, classified, calls,
               invocations, created, run_no, prev_run >>

\* The folders the classifier is tried on: every listing of basic entries,
\* every single further file, and folders that cannot be listed.
ClassifyInputs ==
  { Folder(TRUE, es) : es \in Listings(MaxFiles) }
    \cup { Folder(TRUE, << e >>) : e \in ProbeEntries }
    \cup { Folder(FALSE, es) : es \in Listings(1) }

InitClassify ==
  /\ c_folder \in ClassifyInputs
  /\ c_verdict = "pending"
  /\ RunIdle
  /\ InvokeIdle

\* is_dicom_folder(c_folder) returns True.
classify_true ==
  /\ c_verdict = "pending"
  /\ is_dicom_folder(c_folder)
  /\ c_verdict' = "match"
  /\ log' = is_dicom_folder_log(c_folder)
  /\ UNCHANGED << c_folder, r_result, r_log >>
  /\ RunSame

\* is_dicom_folder(c_folder) returns False.
classify_false ==
  /\ c_verdict = "pending"
  /\ ~is_dicom_folder(c_folder)
  /\ c_verdict' = "nomatch"
  /\ log' = is_dicom_folder_log(c_folder)
  /\ UNCHANGED << c_folder, r_result, r_log >>
  /\ RunSame

NextClassify == classify_true \/ classify_false

SpecClassify == InitClassify /\ [][NextClassify]_vars

\* ------------------------------ convert_directory's logging on its own

\* Every token sequence of at most n tokens.
Outputs(n) == UNION { [1..k -> OutTokens] : k \in 0..n }

\* The results the converter may give: every exit code of 0..2 with every
\* short output, with and without standard error; or an exception.
InvokeResults ==
  { Completed(rc, out, err) :
      rc \in 0..2, out \in Outputs(MaxOut), err \in { << >>, << "Err" >> } }
    \cup { Raised }

InitInvoke ==
  /\ r_result \in InvokeResults
  /\ r_log = << >>
  /\ RunIdle
  /\ ClassifyIdle

\* Lines 106-134 for the result r_result.
log_result ==
  /\ r_log = << >>
  /\ r_log' = start_log \o result_log(r_result)
  /\ UNCHANGED << r_result, c_folder, c_verdict, log >>
  /\ RunSame

NextInvoke == log_result

SpecInvoke == InitInvoke /\ [][NextInvoke]_vars

\* ================================================================ claims

\* p is r or lies below r, component by component.
Under(p, r) ==
  LET pc_ == split(p)
      rc_ == split(r)
  IN  /\ Len(rc_) <= Len(pc_)
      /\ SubSeq(pc_, 1, Len(rc_)) = rc_

\* The directory that mirrors F below the output root.
MirrorDir(F) ==
  abs_of(split(OUTPUT_ROOT)
         \o SubSeq(split(F), Len(split(INPUT_ROOT)) + 1, Len(split(F))))

\* The text output_root/relative_path(F, input_root) for F at or below the
\* input root.
MirrorText(F) ==
  IF F = INPUT_ROOT THEN OUTPUT_ROOT \o << "/", "." >>
  ELSE OUTPUT_ROOT \o << "/" >> \o SubSeq(F, Len(INPUT_ROOT) + 2, Len(F))

\* How often x occurs in the sequence q.
Count(q, x) == Cardinality({ k \in 1..Len(q) : q[k] = x })

\* ------------------------------------------------------------------- C1

\* The extension of a name: its text from the last dot on.
C1_Extension(name) ==
  LET dots == { k \in 1..Len(name) : name[k] = "." }
  IN  IF dots = {} THEN << >>
      ELSE SubSeq(name, CHOOSE k \in dots : \A j \in dots : j <= k, Len(name))

C1_FileMatches(f) ==
  \/ Lower(C1_Extension(f.name)) \in
       { <<".", "d", "c", "m">>, <<".", "d", "o", "c", "m">>, <<".", "i", "m", "a">> }
  \/ /\ f.readable
     /\ FileSize(f) >= 132
     /\ \A j \in 0..3 : ByteAt(f, 128 + j) = DICM[j + 1]

\* Entry k is one of the first 5 regular files of the listing.
C1_Sampled(es, k) ==
  /\ es[k].isfile
  /\ Cardinality({ j \in 1..k : es[j].isfile }) <= 5

\* C1: for a folder that can be listed, is_dicom_folder returns true if and
\* only if one of the first 5 regular files of the listing has an allow-listed
\* extension (case-insensitive) or holds DICM at offset 128 and can be read; a
\* file that cannot be read or is shorter than 132 bytes is no match, and no
\* file after the 5th regular file counts.
C1_ClassifierIff ==
  (c_verdict # "pending" /\ c_folder.listable) =>
    ((c_verdict = "match") <=>
       \E k \in 1..Len(c_folder.entries) :
         C1_Sampled(c_folder.entries, k) /\ C1_FileMatches(c_folder.entries[k]))

\* A folder found not to match although its 6th regular file is a DICOM file,
\* after an unreadable file was sampled and passed over.
C1_Witness ==
  /\ c_verdict = "nomatch"
  /\ c_folder.listable
  /\ \E k \in 1..Len(c_folder.entries) :
       /\ c_folder.entries[k].isfile
       /\ ~C1_Sampled(c_folder.entries, k)
       /\ C1_FileMatches(c_folder.entries[k])
  /\ \E j \in 1..Len(c_folder.entries) :
       C1_Sampled(c_folder.entries, j) /\ ~c_folder.entries[j].readable

\* ------------------------------------------------------------------- C2

C2_Invocations ==
  /\ Len(invocations) <= Len(calls)
  /\ \A k \in 1..Len(invocations) :
       LET cmd == invocations[k].cmd
           n == Len(cmd)
       IN  /\ invocations[k].out_exists
           /\ cmd[n] = calls[k]
           /\ cmd[n - 1] = MirrorText(calls[k])
           /\ cmd[n - 2] = <<"-", "o">>
           /\ MirrorDir(calls[k]) \in dirs

\* C2 as stated: the output directory of every converted folder exists when
\* the converter is started, the converter gets that path after -o and the
\* folder as last argument, and every directory the run has created is the
\* output root or the mirror of a directory below the input root.
C2_CreatedAreMirrors ==
  /\ C2_Invocations
  /\ \A c \in created :
       \/ c = OUTPUT_ROOT
       \/ \E F \in dirs : Under(F, INPUT_ROOT) /\ c = MirrorDir(F)

\* C2 as amended: the same, where a created directory may also be a missing
\* ancestor of the output root, which check_environment creates with it.
C2_CreatedAreMirrorsOrParents ==
  /\ C2_Invocations
  /\ \A c \in created :
       \/ Under(OUTPUT_ROOT, c)
       \/ \E F \in dirs : Under(F, INPUT_ROOT) /\ c = MirrorDir(F)

\* A folder two levels down has been converted into a mirror directory that
\* the run created together with its parent.
C2_Witness ==
  /\ Len(invocations) > 0
  /\ \E k \in 1..Len(calls) :
       /\ Len(split(calls[k])) = Len(split(INPUT_ROOT)) + 2
       /\ MirrorDir(calls[k]) \in created
       /\ parent_of(MirrorDir(calls[k])) \in created

\* ------------------------------------------------------------------- C3

\* C3: once the environment check has passed, the run is walking or has ended
\* normally with its summary: no failure met in one folder ends it.
C3_NoFolderFailureAborts ==
  (pc # "start" /\ pc # "exited") =>
    (pc \in { "walk", "done" } /\ exit_status \in { -1, 0 })

\* ------------------------------------------------------------------- C4

\* The directories the walk reaches: below the input root, listable, as are
\* all their ancestors up to the input root.
C4_Walkable(d) ==
  /\ Under(d, INPUT_ROOT)
  /\ \A a \in with_parents(d) : Under(a, INPUT_ROOT) => a \notin denied

\* C4: at the end of a run every directory below the input root that holds a
\* file and does not lie within the output root has been classified exactly
\* once and converted once if it matches and never otherwise; no directory is
\* classified or converted twice.
C4_EveryFolderExactlyOnce ==
  pc = "done" =>
    /\ \A d \in dirs :
         (C4_Walkable(d) /\ files[d] # << >> /\ ~Under(d, OUTPUT_ROOT)) =>
           /\ Count(classified, d) = 1
           /\ Count(calls, d) =
                (IF is_dicom_folder(Folder(TRUE, listdir(d, dirs, files)))
                 THEN 1 ELSE 0)
    /\ \A d \in dirs : Count(classified, d) <= 1 /\ Count(calls, d) <= 1

\* ------------------------------------------------------------------- C5

\* The folders handed to the classifier or to the converter so far.
C5_Handled ==
  Range(classified) \cup Range(calls)
    \cup { invocations[k].cmd[Len(invocations[k].cmd)] : k \in 1..Len(invocations) }

\* C5: with the output root inside the input root, no directory that is the
\* output root or lies below it is handed to the classifier or the converter.
C5_OutputTreeNeverHandled ==
  Under(OUTPUT_ROOT, INPUT_ROOT) =>
    \A d \in C5_Handled : ~Under(d, OUTPUT_ROOT)

\* A finished run with the output root inside the input root that converted a
\* folder and walked past a directory below the output root that holds a
\* DICOM file left by an earlier run.
C5_Witness ==
  /\ pc = "done"
  /\ Under(OUTPUT_ROOT, INPUT_ROOT)
  /\ Len(calls) > 0
  /\ \E d \in dirs :
       /\ Under(d, OUTPUT_ROOT)
       /\ d # OUTPUT_ROOT
       /\ is_dicom_folder(Folder(TRUE, listdir(d, dirs, files)))

\* ------------------------------------------------------------------- C6

C6_HasCritical == \E k \in 1..Len(log) : log[k].level = "CRITICAL"

\* C6: when the converter is missing, or it exists and the input root is
\* missing, check_environment logs at critical level and ends the process
\* with a non-zero status; nothing has been created, walked, classified or
\* converted. The run goes on only when both exist.
C6_StartupFailureIsFatal ==
  /\ (pc # "start" /\ ~exe_exists) => pc = "exited"
  /\ (pc # "start" /\ pc # "exited") =>
       (exe_exists /\ INPUT_ROOT \in dirs /\ INPUT_ROOT \notin created)
  /\ pc = "exited" =>
       /\ ~exe_exists \/ INPUT_ROOT \notin dirs
       /\ exit_status # 0 /\ exit_status # -1
       /\ C6_HasCritical
       /\ created = {}
       /\ todo = << >>
       /\ classified = << >>
       /\ calls = << >>
       /\ invocations = << >>
       /\ processed_count = 0

\* The converter exists, the input root does not, and the process has ended.
C6_Witness ==
  /\ pc = "exited"
  /\ exe_exists
  /\ INPUT_ROOT \notin dirs
  /\ OUTPUT_ROOT \notin dirs

\* ------------------------------------------------------------------- C7

\* C7: when the tool is started a second time, creating any directory the
\* first run left is no error and changes nothing; when the second run has
\* ended, the folders classified as a match and the directories are those of
\* the first run and nothing was created; a second run that has ended
\* normally has started the converter once more for every matching folder.
C7_SecondRunSame ==
  /\ (run_no = 2 /\ pc = "start") =>
       \A d \in prev_run.dirs :
         ~mkdir_raises(d, dirs, files) /\ mkdir(d, dirs) = dirs
  /\ (run_no = 2 /\ Ended) =>
       /\ Range(calls) = prev_run.matched
       /\ dirs = prev_run.dirs
       /\ created = {}
  /\ (run_no = 2 /\ pc = "done") =>
       /\ Len(invocations) = Cardinality(prev_run.matched)
       /\ \A d \in prev_run.matched :
            \E k \in 1..Len(invocations) :
              invocations[k].cmd[Len(invocations[k].cmd)] = d

\* A second run has ended normally after converting two folders again, with
\* the output root inside the input root.
C7_Witness ==
  /\ run_no = 2
  /\ pc = "done"
  /\ Under(OUTPUT_ROOT, INPUT_ROOT)
  /\ Len(invocations) = 2
  /\ \E d \in prev_run.matched : E_nii \in Range(files[MirrorDir(d)])

\* ------------------------------------------------------------------- C8

\* The folders classified so far that are a match.
C8_Matches ==
  { k \in 1..Len(classified) :
      is_dicom_folder(Folder(TRUE, listdir(classified[k], dirs, files))) }

\* C8: between two folders and at the end of the walk the processed count is
\* the number of convert_directory calls so far, whatever the converter did;
\* the count in the summary is the number of folders classified as a match.
C8_CountIsCalls ==
  /\ pc \in { "walk", "done" } =>
       /\ processed_count = Len(calls)
       /\ processed_count = Cardinality(C8_Matches)
  /\ pc = "done" => log[1].what = "summary" /\ log[1].text = Cardinality(C8_Matches)

\* The second matching folder has just been counted although the converter
\* could not be started for it.
C8_Witness ==
  /\ pc = "walk"
  /\ processed_count = 2
  /\ \E k \in 1..Len(log) : log[k].what = "exception"

\* ------------------------------------------------------------------- C9

\* D lies below the input root and is not the input root.
C9_Below(D) == Under(D, INPUT_ROOT) /\ D # INPUT_ROOT

\* C9 as stated: a directory below the input root that was not classified as
\* a match is never the source of a converter call, and no directory is
\* created at its mirror path.
C9_NoMirrorForNonMatch ==
  \A D \in dirs :
    (C9_Below(D) /\ D \notin Range(calls)) =>
      /\ \A k \in 1..Len(invocations) :
           invocations[k].cmd[Len(invocations[k].cmd)] # D
      /\ MirrorDir(D) \notin created

\* C9 as amended: such a directory is never the source of a converter call; a
\* directory without files is never classified; and a directory is created
\* at its mirror path only if a folder below it was converted (mkdir creates
\* the parents of that folder's mirror).
C9_MirrorOnlyAsParent ==
  /\ \A D \in Range(classified) : files[D] # << >>
  /\ \A D \in dirs :
       (C9_Below(D) /\ D \notin Range(calls)) =>
         /\ \A k \in 1..Len(invocations) :
              invocations[k].cmd[Len(invocations[k].cmd)] # D
         /\ MirrorDir(D) \in created =>
              \E M \in Range(calls) : M # D /\ Under(M, D)

\* A folder classified as no match whose mirror directory exists because a
\* folder below it was converted, beside a directory without files.
C9_Witness ==
  /\ pc = "done"
  /\ \E D \in Range(classified) :
       /\ D \notin Range(calls)
       /\ D # INPUT_ROOT
       /\ MirrorDir(D) \in created
  /\ \E E \in dirs : Under(E, INPUT_ROOT) /\ files[E] = << >>

\* ------------------------------------------------------------------ C10

C10_Levels(lvl) == { k \in 1..Len(r_log) : r_log[k].level = lvl }

C10_Whats(w) == { k \in 1..Len(r_log) : r_log[k].what = w }

\* The output lines that hold the marker: the positions of the first marker
\* of each line.
C10_MarkedLines ==
  { k \in 1..Len(r_result.stdout) :
      /\ r_result.stdout[k] = "Convert"
      /\ \A j \in 1..(k - 1) :
           r_result.stdout[j] = "Convert" =>
             \E n \in (j + 1)..(k - 1) : r_result.stdout[n] = NL }

\* C10: on exit code 0 convert_directory logs info entries only, among them
\* one success entry and one entry per output line holding the marker; on
\* another exit code it logs a warning carrying the whole standard output, no
\* success entry, and an error entry exactly if standard error is not empty;
\* when the converter cannot be run it logs an error entry and no success.
C10_LogFollowsOutcome ==
  r_log # << >> =>
    /\ (~r_result.raised /\ r_result.returncode = 0) =>
         /\ C10_Levels("INFO") = 1..Len(r_log)
         /\ Cardinality(C10_Whats("success")) = 1
         /\ Cardinality(C10_Whats("converted_line")) = Cardinality(C10_MarkedLines)
    /\ (~r_result.raised /\ r_result.returncode # 0) =>
         /\ \E k \in C10_Levels("WARNING") : r_log[k].text = r_result.stdout
         /\ C10_Whats("success") = {}
         /\ C10_Whats("converted_line") = {}
         /\ (C10_Levels("ERROR") # {}) <=> (r_result.stderr # << >>)
    /\ r_result.raised =>
         /\ C10_Levels("ERROR") # {}
         /\ C10_Whats("success") = {}

\* The converter ended with a non-zero exit code, an output line holding the
\* marker and no standard error: warnings only.
C10_Witness ==
  /\ r_log # << >>
  /\ ~r_result.raised
  /\ r_result.returncode # 0
  /\ r_result.stderr = << >>
  /\ C10_MarkedLines # {}
  /\ C10_Levels("ERROR") = {}

====
